---- MODULE Spec2Model ----
(***************************************************************************)
(* Model of cfg-watcher's ConfigContentWatcher (the reconciliation engine) *)
(* fed by a ConfigWatcher through its fileChange$ subject: an abstract one  *)
(* that may send any file change (Spec), or one of the two drivers,        *)
(* ConfigMapWatcher and ConfigFileWatcher, with the subscribers of         *)
(* changes$ (SpecDrivers).                                                 *)
(*                                                                         *)
(* State object of the engine: an ordered list of (key, ConfigSet) pairs,  *)
(* in JavaScript own-property order (string keys keep insertion order).    *)
(* One step of the model is one synchronous call: onInit(), onDestroy(),   *)
(* one fileChange$.next(change), or one event of a driver's source, with   *)
(* everything the rxjs pipelines do synchronously in response.             *)
(***************************************************************************)
EXTENDS Integers, Sequences, FiniteSets

\* ---------------------------------------------------------------- bounds
MaxLen == 2        \* documents in one file
MaxVal == 2        \* distinct payload values an item can carry
MaxEvents == 3     \* file changes sent on fileChange$
MaxSubscriptions == 2   \* live subscriptions of the engine (onInit called again)
MaxObservers == 1  \* subscribers of changes$
MaxSourceEvents == 2   \* events a driver takes from its source

\* ---------------------------------------------------------------- inputs
\* Identities the caller-supplied getId can return; "" is the falsy string.
\* (Names that Object.prototype defines, for which state[id] is never undefined,
\* are not among the modelled identities.)
Ids == {"", "x"}
Vals == 1 .. MaxVal
Files == {"a.yaml", "b.yaml"}

\* Schema-valid items (the payload T) and one document that fails the schema.
Items == [id : Ids, val : Vals]
BadDoc == [id |-> "x", val |-> 0]
Docs == Items \cup {BadDoc}

SeqsUpTo(S, n) == UNION {[1 .. k -> S] : k \in 0 .. n}

\* Raw file content: null, whitespace only, text yaml cannot parse, or text
\* that parses to a list of documents.
NullContent == [kind |-> "null"]
Contents ==
    {NullContent, [kind |-> "blank"], [kind |-> "garbage"]}
        \cup {[kind |-> "yaml", docs |-> d] : d \in SeqsUpTo(Docs, MaxLen)}

Undefined == [undefined |-> TRUE]

VARIABLES
    state,          \* _state$.value, as the ordered list of its own properties
    changes,        \* every action sent on _changes$, in order
    seen,           \* for each action of changes: state[action.id] when it was sent
    subscriptions,  \* live subscriptions of configFileChanges$
    destroyed,      \* onDestroy() was called and onInit() not since
    history,        \* the file changes a subscription received, each with the state before it
    ignored,        \* file changes sent after onDestroy(), before a new onInit()
    latest,         \* per subscription: the state value each withLatestFrom holds
    received,       \* per subscriber of changes$: the actions delivered to it
    backend,        \* the ConfigWatcher the engine was constructed with
    watching,       \* live pipelines of the driver (one per watcher.onInit())
    fileStore,      \* the driver's _fileStore, in Map insertion order
    last,           \* the source event a driver pipeline processed last
    failed,         \* a driver pipeline ended in its subscribe error handler
    notified        \* an error or completion was sent on fileChange$

engineVars == <<state, changes, seen, history, ignored, latest, received>>
driverVars == <<fileStore, last, failed, notified>>
vars == <<state, changes, seen, subscriptions, destroyed, history, ignored,
          latest, received, backend, watching, fileStore, last, failed, notified>>

\* ---------------------------------------------------------------- helpers
getId(item) == item.id

\* state[id]: the ConfigSet stored under key id, or undefined
Lookup(st, id) ==
    IF \E i \in DOMAIN st : st[i].id = id
    THEN (st[CHOOSE i \in DOMAIN st : st[i].id = id]).set
    ELSE Undefined

Has(st, id) == \E i \in DOMAIN st : st[i].id = id

\* Object.values(state)
Values(st) == [i \in DOMAIN st |-> st[i].set]

RECURSIVE getIndexOfIdFrom(_, _, _)
getIndexOfIdFrom(existingId, arr, index) ==
    IF index > Len(arr) THEN -1
    ELSE IF getId(arr[index]) = existingId THEN index
    ELSE getIndexOfIdFrom(existingId, arr, index + 1)

getIndexOfId(existingId, arr) == getIndexOfIdFrom(existingId, arr, 1)

\* ------------------------------------------------------- validation pipeline
\* validateConfigFile: {filename, data, error}.  Null or whitespace-only content
\* is the empty list; a parse error or one item failing the schema is an error
\* for the whole file.
SchemaValid(item) == item \in Items

Parse(content) ==
    IF content.kind \in {"null", "blank"} THEN [error |-> FALSE, data |-> <<>>]
    ELSE IF content.kind = "garbage" THEN [error |-> TRUE, data |-> <<>>]
    ELSE [error |-> FALSE, data |-> content.docs]

\* A validation that drops the documents failing the schema and keeps the rest.
validateSkippingInvalid(fileChange) ==
    LET parsed == Parse(fileChange.content)
        keep(item) == SchemaValid(item)
    IN  IF parsed.error
        THEN [filename |-> fileChange.filename, data |-> Undefined, error |-> TRUE]
        ELSE [filename |-> fileChange.filename,
              data |-> SelectSeq(parsed.data, keep), error |-> FALSE]

validateConfigFile(fileChange) ==
    LET parsed == Parse(fileChange.content)
        invalid == \E index \in DOMAIN parsed.data : ~SchemaValid(parsed.data[index])
    IN  IF parsed.error \/ invalid
        THEN [filename |-> fileChange.filename, data |-> Undefined, error |-> TRUE]
        ELSE [filename |-> fileChange.filename, data |-> parsed.data, error |-> FALSE]

\* ------------------------------------------------------ reconciliation engine
RemoveAction(id) == [name |-> "remove", id |-> id]
ItemAction(name, id, filename, obj) ==
    [name |-> name, id |-> id, item |-> [filename |-> filename, obj |-> obj]]

\* A selection that does not look at the file name: every entry of the state.
stateArrayAnyFile(st, filename) == Values(st)

\* stateArray.filter(cfgSet => cfgSet.filename === filename)
stateArrayForFile(st, filename) ==
    LET ofFile(cfgSet) == cfgSet.filename = filename
    IN  SelectSeq(Values(st), ofFile)

\* first loop of updateConfigFile$: a remove for each entry of the file whose
\* identity the new list no longer holds
RECURSIVE VanishedFrom(_, _, _)
VanishedFrom(forFile, data, index) ==
    IF index > Len(forFile) THEN <<>>
    ELSE LET existingId == getId(forFile[index].obj)
         IN  (IF getIndexOfId(existingId, data) = -1
              THEN <<RemoveAction(existingId)>> ELSE <<>>)
                 \o VanishedFrom(forFile, data, index + 1)

\* The second loop without the deep-equal test: a known identity is always updated.
ItemActionsNoEqual(st, filename, newItem) ==
    LET id == getId(newItem)
    IN  IF Lookup(st, id) = Undefined
        THEN <<ItemAction("add", id, filename, newItem)>>
        ELSE <<ItemAction("update", id, filename, newItem)>>

\* The second loop without the moved branch: an equal item in another file is skipped.
ItemActionsNoMoved(st, filename, newItem) ==
    LET id == getId(newItem)
        existingSet == Lookup(st, id)
    IN  IF existingSet = Undefined
        THEN <<ItemAction("add", id, filename, newItem)>>
        ELSE IF existingSet.obj # newItem
        THEN <<ItemAction("update", id, filename, newItem)>>
        ELSE <<>>

\* body of the second loop for one item, against the state the event started from
ItemActions(st, filename, newItem) ==
    LET id == getId(newItem)
        existingSet == Lookup(st, id)
    IN  IF existingSet = Undefined
        THEN <<ItemAction("add", id, filename, newItem)>>
        ELSE IF existingSet.obj # newItem
        THEN <<ItemAction("update", id, filename, newItem)>>
        ELSE IF existingSet.filename # filename
        THEN <<ItemAction("moved", id, filename, existingSet.obj)>>
        ELSE <<>>

RECURSIVE NewItemsFrom(_, _, _, _)
NewItemsFrom(st, filename, data, index) ==
    IF index > Len(data) THEN <<>>
    ELSE ItemActions(st, filename, data[index])
             \o NewItemsFrom(st, filename, data, index + 1)

\* the map() of updateConfigFile$: all actions of a validated file
updateConfigFile(st, validationResult) ==
    VanishedFrom(stateArrayForFile(st, validationResult.filename),
                 validationResult.data, 1)
        \o NewItemsFrom(st, validationResult.filename, validationResult.data, 1)

\* the map() of removeConfigFile$: a remove for each entry of the file
removeConfigFile(st, filename) ==
    LET forFile == stateArrayForFile(st, filename)
    IN  [index \in DOMAIN forFile |-> RemoveAction(getId(forFile[index].obj))]

\* the actions one subscription computes for one file change
ActionsFor(st, fileChange) ==
    IF fileChange.type = "remove"
    THEN removeConfigFile(st, fileChange.filename)
    ELSE LET validationResult == validateConfigFile(fileChange)
         IN  IF validationResult.error THEN <<>>
             ELSE updateConfigFile(st, validationResult)

\* {...this.state, [id]: cfgSet}
addOrUpdateSet(st, cfgSet) ==
    LET id == getId(cfgSet.obj)
    IN  IF Has(st, id)
        THEN [i \in DOMAIN st |->
                IF st[i].id = id THEN [id |-> id, set |-> cfgSet] ELSE st[i]]
        ELSE Append(st, [id |-> id, set |-> cfgSet])

\* const {[id]: removedCfgSet, ...rest} = this.state; a falsy id returns early
removeSet(st, id) ==
    IF id = "" THEN st
    ELSE LET others(e) == e.id # id
         IN  SelectSeq(st, others)

\* the tap() of configFileChanges$ for one action: store, then _changes$.next
Commit(st, action) ==
    IF action.name \in {"add", "update", "moved"}
    THEN addOrUpdateSet(st, action.item)
    ELSE removeSet(st, action.id)

\* whether the store operation of an action calls _state$.next: addOrUpdateSet
\* always does, removeSet only past its guard and when the key was there
NextsState(st, action) ==
    action.name # "remove" \/ (action.id # "" /\ Has(st, action.id))

\* A _state$.next that only reaches the withLatestFrom of the add/update pipelines.
stateNextUpdateOnly(held, st) ==
    [s \in DOMAIN held |-> [held[s] EXCEPT !.update = st]]

\* _state$.next(value): every withLatestFrom(this.state$) takes the new value
stateNext(held, st) ==
    [s \in DOMAIN held |-> [update |-> st, remove |-> st]]

\* _changes$.next(action): delivered to each subscriber of changes$
changesNext(observers, action) ==
    [o \in DOMAIN observers |->
        [observers[o] EXCEPT !.got = Append(@, action)]]

RECURSIVE Tap(_, _, _)
Tap(acc, actions, index) ==
    IF index > Len(actions) THEN acc
    ELSE LET action == actions[index]
             st == Commit(acc.state, action)
         IN  Tap([state |-> st,
                  changes |-> Append(acc.changes, action),
                  seen |-> Append(acc.seen, Lookup(st, action.id)),
                  latest |-> IF NextsState(acc.state, action)
                             THEN stateNext(acc.latest, st)
                             ELSE acc.latest,
                  received |-> changesNext(acc.received, action),
                  fresh |-> acc.fresh],
                 actions, index + 1)

\* whether a file change gets as far as the withLatestFrom of its pipeline
ReachesDiff(fileChange) ==
    fileChange.type = "remove" \/ ~validateConfigFile(fileChange).error

\* fileChange$.next(change): each live subscription in turn takes the state its
\* withLatestFrom holds, computes its actions against it and commits them; fresh
\* records whether every state so taken was _state$.value at that moment
RECURSIVE Dispatch(_, _, _)
Dispatch(acc, fileChange, n) ==
    IF n = 0 THEN acc
    ELSE LET s == Len(acc.latest) - n + 1
             held == IF fileChange.type = "remove"
                     THEN acc.latest[s].remove
                     ELSE acc.latest[s].update
             fresh == ReachesDiff(fileChange) => held = acc.state
         IN  Dispatch(Tap([acc EXCEPT !.fresh = @ /\ fresh],
                          ActionsFor(held, fileChange), 1),
                      fileChange, n - 1)

\* ---------------------------------------------------------------- actions
\* What a file's content amounts to, for the log: every content that cannot be
\* parsed or holds a document failing the schema is logged as "garbage", every
\* other content as the list of its documents.
Malformed(content) ==
    \/ content.kind = "garbage"
    \/ content.kind = "yaml" /\ \E index \in DOMAIN content.docs : content.docs[index] \notin Items

Canon(content) ==
    IF Malformed(content) THEN [kind |-> "garbage"]
    ELSE IF content.kind = "yaml" THEN content
    ELSE [kind |-> "yaml", docs |-> <<>>]

\* -------------------------------------------------------------- the drivers
\* File contents a driver's source holds: texts of one valid document.
Texts == {[kind |-> "yaml", docs |-> <<[id |-> "x", val |-> v]>>] : v \in Vals}

\* a value of binaryData and String(Buffer.from(value, 'base64').toString('utf8'))
Encode(text) == [base64 |-> text]
Decode(value) == value.base64

\* _fileStore: Map.has, Map.get, Map.set (a known key keeps its place), Map.delete
storeHas(store, filename) == \E i \in DOMAIN store : store[i].filename = filename
storeGet(store, filename) ==
    (store[CHOOSE i \in DOMAIN store : store[i].filename = filename]).content
storeSet(store, filename, content) ==
    IF storeHas(store, filename)
    THEN [i \in DOMAIN store |->
            IF store[i].filename = filename
            THEN [filename |-> filename, content |-> content]
            ELSE store[i]]
    ELSE Append(store, [filename |-> filename, content |-> content])
storeDelete(store, filename) ==
    LET others(e) == e.filename # filename
    IN  SelectSeq(store, others)

FileChange(type, filename, content) ==
    [type |-> type, filename |-> filename, content |-> content]

\* the body of `for (const filename in data)`: add if the store lacks the file,
\* update if its content differs, else nothing
putKey(acc, filename, content) ==
    IF ~storeHas(acc.store, filename)
    THEN [store |-> storeSet(acc.store, filename, content),
          fileChanges |-> Append(acc.fileChanges, FileChange("add", filename, content))]
    ELSE IF storeGet(acc.store, filename) # content
    THEN [store |-> storeSet(acc.store, filename, content),
          fileChanges |-> Append(acc.fileChanges, FileChange("update", filename, content))]
    ELSE acc

RECURSIVE putKeys(_, _, _)
putKeys(acc, entries, index) ==
    IF index > Len(entries) THEN acc
    ELSE putKeys(putKey(acc, entries[index].filename, entries[index].content),
                 entries, index + 1)

\* `for (const [filename, _] of this._fileStore)`: a remove for each file of the
\* store that is not an own key of the object, deleting it
dropMissing(acc, entries) ==
    LET named == {entries[i].filename : i \in DOMAIN entries}
        kept(e) == e.filename \in named
        gone(e) == e.filename \notin named
        missing == SelectSeq(acc.store, gone)
    IN  [store |-> SelectSeq(acc.store, kept),
         fileChanges |-> acc.fileChanges
             \o [i \in DOMAIN missing |->
                    FileChange("remove", missing[i].filename, NullContent)]]

decoded(entries) ==
    [i \in DOMAIN entries |->
        [filename |-> entries[i].filename, content |-> Decode(entries[i].content)]]

\* the map() of addedModifiedConfigMap$: the data block, then the binaryData block
addedModifiedConfigMap(store, event) ==
    LET start == [store |-> store, fileChanges |-> <<>>]
        afterData ==
            IF Len(event.data) > 0
            THEN dropMissing(putKeys(start, event.data, 1), event.data)
            ELSE start
        binary == decoded(event.binaryData)
    IN  IF Len(event.binaryData) > 0
        THEN dropMissing(putKeys(afterData, binary, 1), binary)
        ELSE afterData

\* A DELETED handler that leaves the store as it is.
removedConfigMapKeepsStore(store) ==
    [store |-> store,
     fileChanges |-> [i \in DOMAIN store |->
                         FileChange("remove", store[i].filename, NullContent)]]

\* the map() of removedConfigMap$: a remove for each file, then _fileStore.clear()
removedConfigMap(store) ==
    [store |-> <<>>,
     fileChanges |-> [i \in DOMAIN store |->
                         FileChange("remove", store[i].filename, NullContent)]]

\* the map() of addedModifiedConfigFile$ on the file read; null is filtered out
addedModifiedConfigFile(store, cfgFile) ==
    IF ~storeHas(store, cfgFile.filename)
    THEN [store |-> storeSet(store, cfgFile.filename, cfgFile.content),
          fileChanges |-> <<FileChange("add", cfgFile.filename, cfgFile.content)>>]
    ELSE IF storeGet(store, cfgFile.filename) # cfgFile.content
    THEN [store |-> storeSet(store, cfgFile.filename, cfgFile.content),
          fileChanges |-> <<FileChange("update", cfgFile.filename, cfgFile.content)>>]
    ELSE [store |-> store, fileChanges |-> <<>>]

\* the map() of removedConfigFile$ on an unlink
removedConfigFile(store, basename) ==
    IF storeHas(store, basename)
    THEN [store |-> storeDelete(store, basename),
          fileChanges |-> <<FileChange("remove", basename, NullContent)>>]
    ELSE [store |-> store, fileChanges |-> <<>>]

\* what one pipeline of the driver makes of one event of its source
pipeline(store, event) ==
    IF event.source = "configmap"
    THEN IF event.phase \in {"ADDED", "MODIFIED"}
         THEN addedModifiedConfigMap(store, event)
         ELSE removedConfigMap(store)
    ELSE IF event.event \in {"add", "change"}
         THEN addedModifiedConfigFile(store,
                  [filename |-> event.basename, content |-> event.content])
         ELSE removedConfigFile(store, event.basename)

\* ---------------------------------------------------- the engine's response
\* the engine's variables as one value, and the step that installs such a value
Engine ==
    [state |-> state, changes |-> changes, seen |-> seen, history |-> history,
     ignored |-> ignored, latest |-> latest, received |-> received]

Becomes(eng) ==
    /\ state' = eng.state
    /\ changes' = eng.changes
    /\ seen' = eng.seen
    /\ history' = eng.history
    /\ ignored' = eng.ignored
    /\ latest' = eng.latest
    /\ received' = eng.received

\* _fileChange$.next(change), seen from the engine
Send(eng, change) ==
    LET out == Dispatch([state |-> eng.state, changes |-> eng.changes,
                         seen |-> eng.seen, latest |-> eng.latest,
                         received |-> eng.received, fresh |-> TRUE],
                        change, subscriptions)
    IN  [state |-> out.state,
         changes |-> out.changes,
         seen |-> out.seen,
         latest |-> out.latest,
         received |-> out.received,
         ignored |-> IF destroyed THEN eng.ignored + 1 ELSE eng.ignored,
         history |->
             IF subscriptions = 0 THEN eng.history
             ELSE Append(eng.history,
                         [filename |-> change.filename,
                          remove |-> change.type = "remove",
                          content |-> Canon(change.content),
                          pre |-> eng.state,
                          from |-> Len(eng.changes),
                          fresh |-> out.fresh])]

\* mergeMap(changes => changes) of a driver: the file changes sent one by one
RECURSIVE SendAll(_, _, _)
SendAll(eng, fileChanges, index) ==
    IF index > Len(fileChanges) THEN eng
    ELSE SendAll(Send(eng, fileChanges[index]), fileChanges, index + 1)

\* one event of the source, taken by each live pipeline of the driver in turn
RECURSIVE Pipelines(_, _, _)
Pipelines(acc, event, n) ==
    IF n = 0 THEN acc
    ELSE LET out == pipeline(acc.store, event)
         IN  Pipelines([store |-> out.store,
                        engine |-> SendAll(acc.engine, out.fileChanges, 1),
                        emitted |-> acc.emitted \o out.fileChanges],
                       event, n - 1)

\* ---------------------------------------------------------------- actions
NoEvent == [source |-> "none"]

InitEngine ==
    /\ state = <<>>
    /\ changes = <<>>
    /\ seen = <<>>
    /\ subscriptions = 0
    /\ destroyed = FALSE
    /\ history = <<>>
    /\ ignored = 0
    /\ latest = <<>>
    /\ received = <<>>
    /\ watching = 0
    /\ fileStore = <<>>
    /\ last = [count |-> 0, event |-> NoEvent, before |-> <<>>, emitted |-> <<>>,
               live |-> FALSE, repeat |-> FALSE]
    /\ failed = FALSE
    /\ notified = FALSE

\* an engine constructed with some ConfigWatcher
Init == InitEngine /\ backend = "watcher"

\* an engine constructed with a ConfigMapWatcher or with a ConfigFileWatcher
InitDrivers == InitEngine /\ backend \in {"configmap", "file"}

\* onInit(): one more subscription of configFileChanges$ to fileChange$, whose
\* withLatestFrom take the current state; then watcher.onInit()
onInit ==
    /\ subscriptions < MaxSubscriptions
    /\ subscriptions' = subscriptions + 1
    /\ destroyed' = FALSE
    /\ latest' = Append(latest, [update |-> state, remove |-> state])
    /\ watching' = watching + 1
    /\ UNCHANGED <<state, changes, seen, history, ignored, received, backend>>
    /\ UNCHANGED driverVars

\* An onDestroy() whose signal the pipeline does not take: subscriptions stay live.
onDestroyKeepsSubscriptions ==
    /\ destroyed' = TRUE
    /\ UNCHANGED <<subscriptions, watching, backend>>
    /\ UNCHANGED engineVars
    /\ UNCHANGED driverVars

\* onDestroy(): takeUntil completes every subscription; _state$ is left as it is;
\* then watcher.onDestroy()
onDestroy ==
    /\ subscriptions' = 0
    /\ destroyed' = TRUE
    /\ latest' = <<>>
    /\ watching' = 0
    /\ UNCHANGED <<state, changes, seen, history, ignored, received, backend>>
    /\ UNCHANGED driverVars

\* A changes$ that hands a new subscriber every action sent before.
subscribeWithReplay ==
    /\ Len(received) < MaxObservers
    /\ received' = Append(received, [at |-> Len(changes), got |-> changes])
    /\ UNCHANGED <<state, changes, seen, history, ignored, latest>>
    /\ UNCHANGED <<subscriptions, destroyed, backend, watching>>
    /\ UNCHANGED driverVars

\* changes$.subscribe(...)
subscribe ==
    /\ Len(received) < MaxObservers
    /\ received' = Append(received, [at |-> Len(changes), got |-> <<>>])
    /\ UNCHANGED <<state, changes, seen, history, ignored, latest>>
    /\ UNCHANGED <<subscriptions, destroyed, backend, watching>>
    /\ UNCHANGED driverVars

\* fileChange$.next(change)
fileChange(change) ==
    /\ Len(history) + ignored < MaxEvents
    /\ Becomes(Send(Engine, change))
    /\ UNCHANGED <<subscriptions, destroyed, backend, watching>>
    /\ UNCHANGED driverVars

FileChanges ==
    {[type |-> t, filename |-> f, content |-> c] :
        t \in {"add", "update"}, f \in Files, c \in Contents}
        \cup {[type |-> "remove", filename |-> f, content |-> NullContent] : f \in Files}

\* the event shows the driver what the event before it showed: the same data and
\* binaryData of the ConfigMap, or the same content of the same file
SameSnapshot(previous, event) ==
    /\ previous.source = event.source
    /\ IF event.source = "configmap"
       THEN /\ {previous.phase, event.phase} \subseteq {"ADDED", "MODIFIED"}
            /\ previous.data = event.data
            /\ previous.binaryData = event.binaryData
       ELSE /\ {previous.event, event.event} \subseteq {"add", "change"}
            /\ previous.basename = event.basename
            /\ previous.content = event.content

\* an event of the driver's source, taken by every live pipeline
sourceEvent(event) ==
    /\ last.count < MaxSourceEvents
    /\ LET out == Pipelines([store |-> fileStore, engine |-> Engine, emitted |-> <<>>],
                            event, watching)
       IN  /\ fileStore' = out.store
           /\ Becomes(out.engine)
           /\ last' = [count |-> last.count + 1,
                       event |-> event,
                       before |-> fileStore,
                       emitted |-> out.emitted,
                       live |-> watching > 0,
                       repeat |-> last.live /\ watching > 0
                                     /\ SameSnapshot(last.event, event)]
    /\ UNCHANGED <<subscriptions, destroyed, backend, watching, failed, notified>>

\* the watch of the ConfigMap delivers an event
kubeEvent(event) ==
    /\ backend = "configmap"
    /\ sourceEvent(event)

\* the watch of the paths delivers an event (and, for add and change, the file
\* was read)
fsEvent(event) ==
    /\ backend = "file"
    /\ sourceEvent(event)

\* the object of a ConfigMap event: data and binaryData, each an ordered list of
\* its own keys with their values, no key in both
KeyLists(values) ==
    {entries \in SeqsUpTo([filename : Files, content : values], Cardinality(Files)) :
        \A i, j \in DOMAIN entries : entries[i].filename = entries[j].filename => i = j}

ApiObjs ==
    {obj \in [data : KeyLists(Texts),
              binaryData : KeyLists({Encode(text) : text \in Texts})] :
        \A i \in DOMAIN obj.data : \A j \in DOMAIN obj.binaryData :
            obj.data[i].filename # obj.binaryData[j].filename}

KubeEvents ==
    {[source |-> "configmap", phase |-> phase,
      data |-> obj.data, binaryData |-> obj.binaryData] :
        phase \in {"ADDED", "MODIFIED"}, obj \in ApiObjs}
        \cup {[source |-> "configmap", phase |-> "DELETED",
               data |-> <<>>, binaryData |-> <<>>]}

\* a file system event, with the content readFileRx yields for add and change
FsEvents ==
    {[source |-> "file", event |-> e, basename |-> f, content |-> t] :
        e \in {"add", "change"}, f \in Files, t \in Texts}
        \cup {[source |-> "file", event |-> "unlink", basename |-> f,
               content |-> NullContent] : f \in Files}

\* the source stream of a live pipeline errors: the error callback of subscribe
\* logs it, the pipeline is gone, nothing is sent on fileChange$
streamError ==
    /\ backend \in {"configmap", "file"}
    /\ watching > 0
    /\ watching' = watching - 1
    /\ failed' = TRUE
    /\ UNCHANGED <<subscriptions, destroyed, backend, fileStore, last, notified>>
    /\ UNCHANGED engineVars

Next ==
    \/ onInit
    \/ onDestroy
    \/ \E change \in FileChanges : fileChange(change)

Spec == Init /\ [][Next]_vars

NextDrivers ==
    \/ onInit
    \/ onDestroy
    \/ subscribe
    \/ streamError
    \/ \E event \in KubeEvents : kubeEvent(event)
    \/ \E event \in FsEvents : fsEvent(event)

SpecDrivers == InitDrivers /\ [][NextDrivers]_vars

\* ================================================================ properties
\* ------------------------------------------------- reading the log of events
N == Len(history)

\* the state after the k-th received file change, and the actions it published
Post(k) == IF k < N THEN history[k + 1].pre ELSE state
Emitted(k) ==
    SubSeq(changes, history[k].from + 1,
           IF k < N THEN history[k + 1].from ELSE Len(changes))

IsPut(k) == ~history[k].remove
Validated(k) == IsPut(k) /\ history[k].content.kind = "yaml"
Rejected(k) == IsPut(k) /\ history[k].content.kind = "garbage"
Data(k) == history[k].content.docs

Keys(st) == {st[i].id : i \in DOMAIN st}
TrackedUnder(st, filename) == {id \in Keys(st) : Lookup(st, id).filename = filename}
IdsOf(docs) == {getId(docs[i]) : i \in DOMAIN docs}
ItemsFor(docs, id) == {docs[i] : i \in {j \in DOMAIN docs : getId(docs[j]) = id}}
ActionsOf(actions, id) ==
    LET about(a) == a.id = id
    IN  SelectSeq(actions, about)
Names(actions) == {actions[i].name : i \in DOMAIN actions}

\* the state as the mapping a reader of currentState sees
StateMap(st) == [id \in Keys(st) |-> Lookup(st, id)]

\* a subscriber's mirror: start from the empty map, apply every action in order
RECURSIVE Replay(_, _, _)
Replay(map, actions, index) ==
    IF index > Len(actions) THEN map
    ELSE LET a == actions[index]
             next == IF a.name = "remove"
                     THEN [id \in DOMAIN map \ {a.id} |-> map[id]]
                     ELSE [id \in DOMAIN map \cup {a.id} |->
                              IF id = a.id THEN a.item ELSE map[id]]
         IN  Replay(next, actions, index + 1)

EmptyMap == [id \in {} |-> Undefined]

\* ----------------------------------------------------------------------- C1
\* C1: an add/update file change whose content fails to parse or holds an item
\* failing the schema leaves State exactly as it was and publishes no action.
C1_RejectedFileChangesNothing ==
    \A k \in 1 .. N :
        Rejected(k) => Post(k) = history[k].pre /\ Emitted(k) = <<>>

\* a rejected content arrived for a file that had entries in State
C1_Witness ==
    \E k \in 1 .. N :
        /\ Rejected(k)
        /\ TrackedUnder(history[k].pre, history[k].filename) # {}

\* ----------------------------------------------------------------------- C2
\* C2: actions and State move in lock-step: when an action is sent, State already
\* shows it (add/update/moved: State[id] is the action's ConfigSet; remove: id is
\* absent), State never changes without an action, and a subscriber replaying
\* every action from the empty map holds currentState; for every identity string.
C2_LockStep ==
    /\ \A i \in DOMAIN changes :
          IF changes[i].name = "remove"
          THEN seen[i] = Undefined
          ELSE seen[i] = changes[i].item
    /\ \A k \in 1 .. N : Post(k) # history[k].pre => Emitted(k) # <<>>
    /\ Replay(EmptyMap, changes, 1) = StateMap(state)

\* ----------------------------------------------------------------------- C3
\* C3: a remove of file F, with n identities tracked under F, publishes exactly n
\* Remove actions, one per such identity, and leaves no entry filed under F.
C3_RemovalComplete ==
    \A k \in 1 .. N :
        history[k].remove =>
            LET tracked == TrackedUnder(history[k].pre, history[k].filename)
            IN  /\ Len(Emitted(k)) = Cardinality(tracked)
                /\ \A id \in tracked : ActionsOf(Emitted(k), id) = <<RemoveAction(id)>>
                /\ TrackedUnder(Post(k), history[k].filename) = {}
\* ----------------------------------------------------------------------- C4
\* the j-th file change is the last one received for the k-th one's file before it
LastFor(j, k) ==
    /\ j < k
    /\ history[j].filename = history[k].filename
    /\ \A m \in (j + 1) .. (k - 1) : history[m].filename # history[k].filename

NoIdTwice(docs) ==
    \A i, j \in DOMAIN docs : getId(docs[i]) = getId(docs[j]) => i = j

MovesHere(k, X) ==
    /\ Validated(k)
    /\ X \in Keys(history[k].pre)
    /\ Lookup(history[k].pre, X).filename # history[k].filename
    /\ ItemsFor(Data(k), X) = {Lookup(history[k].pre, X).obj}

\* C5: with X tracked under A, an add/update of another file B containing X with
\* the unchanged value publishes exactly one action for X, Moved(X, (B, value)),
\* and files X under B; a later remove of A, or update of A not listing X,
\* publishes nothing for X and leaves State[X] as it is.
C5_MoveNewFileFirst ==
    \A k \in 1 .. N : \A X \in Ids :
        MovesHere(k, X) =>
            LET old == Lookup(history[k].pre, X)
            IN  /\ ActionsOf(Emitted(k), X)
                     = <<ItemAction("moved", X, history[k].filename, old.obj)>>
                /\ Lookup(Post(k), X) = [filename |-> history[k].filename, obj |-> old.obj]
                /\ \A m \in (k + 1) .. N :
                      (/\ history[m].filename = old.filename
                       /\ history[m].remove \/ (Validated(m) /\ X \notin IdsOf(Data(m)))
                       /\ \A i \in (k + 1) .. (m - 1) :
                             ~(history[i].filename = old.filename
                               /\ Validated(i) /\ X \in IdsOf(Data(i))))
                          => /\ ActionsOf(Emitted(m), X) = <<>>
                             /\ Lookup(Post(m), X) = Lookup(history[m].pre, X)

\* ----------------------------------------------------------------------- C6
\* C6: with X tracked under A, a remove of A followed by the add/update of another
\* file B containing X with the same value publishes for X exactly Remove(X), then
\* Add(X, (B, value)): no Moved, no second Remove.
C6_MoveOldFileFirst ==
    \A k \in 1 .. (N - 1) : \A X \in Ids :
        (/\ history[k].remove
         /\ X \in TrackedUnder(history[k].pre, history[k].filename)
         /\ Validated(k + 1)
         /\ history[k + 1].filename # history[k].filename
         /\ ItemsFor(Data(k + 1), X) = {Lookup(history[k].pre, X).obj})
            => ActionsOf(Emitted(k) \o Emitted(k + 1), X)
                   = <<RemoveAction(X),
                       ItemAction("add", X, history[k + 1].filename,
                                  Lookup(history[k].pre, X).obj)>>

\* ----------------------------------------------------------------------- C7
Max(S) == CHOOSE n \in S : \A m \in S : m <= n

\* the last file change of a file that validated (0: none), whether the file is
\* tracked (validated once and not removed since), and what it declares
LastValidated(filename) ==
    Max({0} \cup {k \in 1 .. N : history[k].filename = filename /\ Validated(k)})
TrackedFile(filename) ==
    /\ LastValidated(filename) > 0
    /\ \A m \in (LastValidated(filename) + 1) .. N :
          ~(history[m].filename = filename /\ history[m].remove)
Declares(filename, id) ==
    TrackedFile(filename) /\ id \in IdsOf(Data(LastValidated(filename)))

\* the last item of identity id in the list docs
LastItemFor(docs, id) ==
    docs[Max({i \in DOMAIN docs : getId(docs[i]) = id})]

\* the item validated last under id among the files that now declare id
MostRecentItem(id) ==
    LET k == Max({LastValidated(f) : f \in {g \in Files : Declares(g, id)}})
    IN  LastItemFor(Data(k), id)

\* C7: every State entry (F, item) under key k has F tracked (not removed since),
\* F's last validated content holding an item of identity k, and item equal to the
\* item validated last under k among the files that now declare k.
C7_StateSound ==
    \A id \in Keys(state) :
        LET entry == Lookup(state, id)
        IN  /\ TrackedFile(entry.filename)
            /\ Declares(entry.filename, id)
            /\ entry.obj = MostRecentItem(id)

\* ----------------------------------------------------------------------- C8
\* the k-th file change lists id while State tracks id under another file
Collides(k, id) ==
    /\ Validated(k)
    /\ id \in IdsOf(Data(k))
    /\ id \in Keys(history[k].pre)
    /\ Lookup(history[k].pre, id).filename # history[k].filename

\* C8: when a second file declares an identity tracked under another file, State[id]
\* afterwards is (second file, its item); the second file change publishes Update
\* for id if the value differs from the tracked one and Moved if it is equal.
C8_LastProcessedWins ==
    \A k \in 1 .. N : \A id \in Ids :
        Collides(k, id) =>
            LET old == Lookup(history[k].pre, id)
                new == Lookup(Post(k), id)
                items == ItemsFor(Data(k), id)
                acts == ActionsOf(Emitted(k), id)
            IN  /\ new # Undefined
                /\ new.filename = history[k].filename
                /\ new.obj \in items
                /\ acts # <<>>
                /\ Names(acts) \subseteq {"update", "moved"}
                /\ old.obj \notin items => Names(acts) = {"update"}
                /\ items = {old.obj} => Names(acts) = {"moved"}
                /\ \A i \in DOMAIN acts :
                      /\ acts[i].item.filename = history[k].filename
                      /\ acts[i].item.obj \in items

\* before the k-th file change, file filename was tracked and declared id: its
\* last change validated, listed id, and no remove of it followed
DeclaredBefore(k, filename, id) ==
    \E j \in 1 .. (k - 1) :
        /\ history[j].filename = filename
        /\ Validated(j) /\ id \in IdsOf(Data(j))
        /\ \A m \in (j + 1) .. (k - 1) :
              history[m].filename = filename => Rejected(m)

\* both outcomes happened while the first file was tracked and declared the
\* identity: one collision with a different value, one with an equal value
C8_Witness ==
    \E k, l \in 1 .. N : \E id, id2 \in Ids :
        /\ Collides(k, id) /\ Collides(l, id2)
        /\ Lookup(history[k].pre, id).obj \notin ItemsFor(Data(k), id)
        /\ ItemsFor(Data(l), id2) = {Lookup(history[l].pre, id2).obj}
        /\ DeclaredBefore(k, Lookup(history[k].pre, id).filename, id)
        /\ DeclaredBefore(l, Lookup(history[l].pre, id2).filename, id2)

\* ----------------------------------------------------------------------- C9
\* C9: once onDestroy() was called (and onInit() not again), no file change the
\* watcher sends mutates State or publishes an action.
C9_NothingAfterDestroy ==
    [][destroyed => state' = state /\ changes' = changes]_vars

\* a file change was sent after onDestroy() to an engine that had published actions
C9_Witness ==
    /\ destroyed
    /\ ignored > 0
    /\ state # <<>>
    /\ changes # <<>>

\* ---------------------------------------------------------------------- C10
\* C10: after onDestroy() the synchronous state read yields the empty mapping.
C10_ClearedOnDestroy ==
    destroyed => state = <<>>

\* ---------------------------------------------------------------------- C11
\* the k-th file change as the watcher sent it, up to what its content amounts to
ChangeOf(k) ==
    [type |-> IF history[k].remove THEN "remove" ELSE "update",
     filename |-> history[k].filename,
     content |-> history[k].content]

\* what an engine on which onInit() was called once makes of the k-th file change
Once(k) ==
    Dispatch([state |-> history[k].pre, changes |-> <<>>, seen |-> <<>>,
              latest |-> <<[update |-> history[k].pre, remove |-> history[k].pre]>>,
              received |-> <<>>, fresh |-> TRUE],
             ChangeOf(k), 1)

\* C11: onInit() is idempotent: however often it was called, every file change
\* publishes the actions, and leaves the State, that it does after one onInit().
C11_StartIdempotent ==
    \A k \in 1 .. N :
        /\ Emitted(k) = Once(k).changes
        /\ Post(k) = Once(k).state

\* ---------------------------------------------------------------------- C12
\* the State that results from applying actions in order
RECURSIVE ApplyAll(_, _, _)
ApplyAll(st, actions, index) ==
    IF index > Len(actions) THEN st
    ELSE ApplyAll(Commit(st, actions[index]), actions, index + 1)

\* C12: file changes are processed one at a time: each diff is computed against
\* the State current at that moment, which for the k-th file change is the State
\* all actions of the earlier file changes applied in order give; and the actions
\* published between two file changes all stem from the first of them, whether
\* the changes took the add/update or the remove pipeline.
C12_Serialized ==
    \A k \in 1 .. N :
        /\ history[k].fresh
        /\ history[k].pre = ApplyAll(<<>>, SubSeq(changes, 1, history[k].from), 1)
        /\ Post(k) = ApplyAll(history[k].pre, Emitted(k), 1)
        /\ \A i \in DOMAIN Emitted(k) :
              IF Emitted(k)[i].name = "remove"
              THEN Emitted(k)[i].id \in TrackedUnder(history[k].pre, history[k].filename)
              ELSE Emitted(k)[i].item.filename = history[k].filename

\* a file change of one pipeline directly followed one of the other pipeline, and
\* both published actions
C12_Witness ==
    \E k \in 1 .. (N - 1) :
        /\ history[k].remove # history[k + 1].remove
        /\ Emitted(k) # <<>>
        /\ Emitted(k + 1) # <<>>
        /\ history[k + 1].pre # history[k].pre

\* ---------------------------------------------------------------------- C13
\* C13: each subscriber of changes$ has received exactly the actions sent since it
\* subscribed, each once and in the order sent, and none of those sent before.
C13_PublishedOnce ==
    \A o \in DOMAIN received :
        received[o].got = SubSeq(changes, received[o].at + 1, Len(changes))

\* a subscriber that came after some actions has received later ones
C13_Witness ==
    \E o \in DOMAIN received :
        /\ received[o].at > 0
        /\ received[o].got # <<>>

\* ---------------------------------------------------------------------- C14
\* the event a live pipeline of the ConfigMap driver processed last
LastKube(phases) ==
    /\ last.live
    /\ last.event.source = "configmap"
    /\ last.event.phase \in phases

StoreNames(store) == {store[i].filename : i \in DOMAIN store}
EmittedSet == {last.emitted[i] : i \in DOMAIN last.emitted}

\* C14: on DELETED the ConfigMap driver sends one remove, with content null, for
\* each file of its store, nothing else, and its store is empty afterwards.
C14_DeletedRemovesAll ==
    LastKube({"DELETED"}) =>
        /\ Len(last.emitted) = Len(last.before)
        /\ EmittedSet = {FileChange("remove", f, NullContent) : f \in StoreNames(last.before)}
        /\ fileStore = <<>>

\* DELETED came while the store held every file
C14_Witness ==
    /\ LastKube({"DELETED"})
    /\ StoreNames(last.before) = Files

\* ---------------------------------------------------------------------- C15
\* C15: a driver that is shown what it saw last sends nothing: a ConfigMap event
\* with the data and binaryData of the event before it, or a file read with the
\* content the store has for it.
C15_NoNoOp ==
    /\ last.repeat => last.emitted = <<>>
    /\ (/\ last.live
        /\ last.event.source = "file"
        /\ last.event.event \in {"add", "change"}
        /\ storeHas(last.before, last.event.basename)
        /\ storeGet(last.before, last.event.basename) = last.event.content)
           => last.emitted = <<>>

\* ---------------------------------------------------------------------- C16
\* the keys of the ConfigMap of the last event with their contents, and the store
\* contents, as mappings from file names
ResourceEntries == last.event.data \o decoded(last.event.binaryData)
AsMap(entries) ==
    [f \in StoreNames(entries) |-> storeGet(entries, f)]

\* C16: after ADDED or MODIFIED the store maps exactly the keys of the resource to
\* their contents, and the driver has sent, each once, an add for every key it did
\* not know, an update for every key with new content, a remove for every file it
\* knew that the resource lacks, and nothing else.
C16_SnapshotDiff ==
    LastKube({"ADDED", "MODIFIED"}) =>
        LET new == AsMap(ResourceEntries)
            old == AsMap(last.before)
            expected ==
                {FileChange("add", f, new[f]) : f \in DOMAIN new \ DOMAIN old}
                    \cup {FileChange("update", f, new[f]) :
                            f \in {g \in DOMAIN new \cap DOMAIN old : new[g] # old[g]}}
                    \cup {FileChange("remove", f, NullContent) :
                            f \in DOMAIN old \ DOMAIN new}
        IN  /\ AsMap(fileStore) = new
            /\ EmittedSet = expected
            /\ Len(last.emitted) = Cardinality(expected)

\* ---------------------------------------------------------------------- C17
\* C17: when a pipeline of the driver has ended with an error, so that a
\* subscription of the engine is left without one, the failure has been signalled
\* on fileChange$.
C17_FailureSignalled ==
    (failed /\ watching < subscriptions) => notified

\* ---------------------------------------------------------------------- C18
\* the reference algorithm on a mapping: the items of the list in order, each
\* evaluated against the mapping as the items before it left it
RECURSIVE RefItems(_, _, _, _)
RefItems(map, filename, data, index) ==
    IF index > Len(data) THEN <<>>
    ELSE LET n == data[index]
             id == getId(n)
             put == [filename |-> filename, obj |-> n]
             action ==
                 IF id \notin DOMAIN map THEN <<ItemAction("add", id, filename, n)>>
                 ELSE IF map[id].obj # n THEN <<ItemAction("update", id, filename, n)>>
                 ELSE IF map[id].filename # filename
                      THEN <<ItemAction("moved", id, filename, n)>>
                      ELSE <<>>
             next == IF action = <<>> THEN map
                     ELSE [i \in DOMAIN map \cup {id} |-> IF i = id THEN put ELSE map[i]]
         IN  action \o RefItems(next, filename, data, index + 1)

\* the identities the reference algorithm removes first, and the mapping it then
\* evaluates the items against
RefVanished(st, filename, data) == TrackedUnder(st, filename) \ IdsOf(data)
RefAfterRemoves(st, filename, data) ==
    [id \in Keys(st) \ RefVanished(st, filename, data) |-> Lookup(st, id)]

\* the State in which the i-th action of the k-th file change was computed to be
\* committed: the State before the change with the actions before the i-th applied
RECURSIVE StateBefore(_, _)
StateBefore(k, i) ==
    IF i = 1 THEN history[k].pre
    ELSE Commit(StateBefore(k, i - 1), Emitted(k)[i - 1])

\* C18: the actions a validated list publishes are those of the reference
\* algorithm: a Remove for each entry of the file whose identity the list lacks,
\* then per item in list order, against State as updated by the items before it,
\* Add / Update / Moved / nothing; no Add for an identity State holds at that time.
C18_ReferenceAlgorithm ==
    \A k \in 1 .. N :
        Validated(k) =>
            LET F == history[k].filename
                pre == history[k].pre
                vanished == RefVanished(pre, F, Data(k))
                r == Cardinality(vanished)
                E == Emitted(k)
            IN  /\ Len(E) >= r
                /\ {E[i] : i \in 1 .. r} = {RemoveAction(id) : id \in vanished}
                /\ SubSeq(E, r + 1, Len(E))
                       = RefItems(RefAfterRemoves(pre, F, Data(k)), F, Data(k), 1)
                /\ \A i \in DOMAIN E :
                      E[i].name = "add" => ~Has(StateBefore(k, i), E[i].id)

\* ---------------------------------------------------------------------- C19
\* C19: a file change for F leaves every entry filed under another file as it is,
\* unless it is an add/update listing the entry's identity; and a Remove is only
\* published for an identity filed under F right before the file change.
C19_Frame ==
    \A k \in 1 .. N :
        LET F == history[k].filename
            pre == history[k].pre
            listed == IF Validated(k) THEN IdsOf(Data(k)) ELSE {}
        IN  /\ \A id \in Keys(pre) \ listed :
                  Lookup(pre, id).filename # F => Lookup(Post(k), id) = Lookup(pre, id)
            /\ \A i \in DOMAIN Emitted(k) :
                  Emitted(k)[i].name = "remove"
                      => Emitted(k)[i].id \in TrackedUnder(pre, F)

\* an add/update published a Remove while another file had an entry whose identity
\* the list does not name
C19_Witness ==
    \E k \in 1 .. N :
        /\ Validated(k)
        /\ "remove" \in Names(Emitted(k))
        /\ \E id \in Keys(history[k].pre) \ IdsOf(Data(k)) :
              Lookup(history[k].pre, id).filename # history[k].filename

\* ---------------------------------------------------------------------- C20
\* the pairs the tracked files declare, when each identity has one declaring file
DeclaredIds == {id \in Ids : \E f \in Files : Declares(f, id)}
DeclaredMap ==
    [id \in DeclaredIds |->
        LET f == CHOOSE g \in Files : Declares(g, id)
        IN  [filename |-> f, obj |-> LastItemFor(Data(LastValidated(f)), id)]]

\* C20: whenever no identity is declared by two tracked files and no tracked file
\* lists an identity twice, State is exactly the pairs the tracked files declare.
C20_Synchronized ==
    (/\ \A id \in Ids : \A f, g \in Files : Declares(f, id) /\ Declares(g, id) => f = g
     /\ \A f \in Files : TrackedFile(f) => NoIdTwice(Data(LastValidated(f))))
        => StateMap(state) = DeclaredMap

\* ---------------------------------------------------------------------- C21
\* every key of State is the identity of the item stored under it, and every
\* Add, Update or Moved published carries the identity of its item as id
KeysAreIdentities ==
    /\ \A i \in DOMAIN state : getId(state[i].set.obj) = state[i].id
    /\ \A i \in DOMAIN changes :
          changes[i].name # "remove" => changes[i].id = getId(changes[i].item.obj)

\* every Moved carries the item State[id] held when the Moved was committed, filed
\* under the file of the file change
MovedCarriesStored ==
    \A k \in 1 .. N : \A i \in DOMAIN Emitted(k) :
        Emitted(k)[i].name = "moved" =>
            LET stored == Lookup(StateBefore(k, i), Emitted(k)[i].id)
            IN  /\ stored # Undefined
                /\ Emitted(k)[i].item.obj = stored.obj
                /\ Emitted(k)[i].item.filename = history[k].filename

\* C21: each key of State is the identity of its item, each Add/Update/Moved has
\* the identity of its item as id, and a Moved carries the stored item value
\* unchanged, with only the filename replaced.
C21_KeyConsistency ==
    KeysAreIdentities /\ MovedCarriesStored

====
